---------------------------- MODULE Spec2Model ----------------------------
(***************************************************************************)
(* A model of pskc/parse.py: the namespace table, the three typed element  *)
(* accessors g_e_v / g_e_i / g_e_d, and the PSKC constructor, which reads  *)
(* a document and builds the container (version, id, encryption, mac,      *)
(* keys).                                                                  *)
(*                                                                         *)
(* Strings whose content matters (element text, attribute values) are      *)
(* sequences of one-character strings, so that str.strip() and int() are   *)
(* computed rather than assumed.  Python values are tagged records:        *)
(* None, Str(s), Num(n), Raise(exception name), elements, objects.         *)
(***************************************************************************)
EXTENDS Integers, Sequences, FiniteSets, TLC

---------------------------------------------------------------------------
(* Bounds of the model (not program constants).                            *)

\* number of child elements of a document root
MaxChildren == 3
\* number of child elements of the tree handed to an accessor
MaxKids == 2
\* length of an element's text
MaxTextLen == 2

---------------------------------------------------------------------------
(* Python values                                                           *)

None == [k |-> "None"]
Str(s) == [k |-> "str", s |-> s]
Num(n) == [k |-> "int", n |-> n]
Raise(e) == [k |-> "raise", exc |-> e]
IsRaise(v) == v.k = "raise"

\* The error classes of the specification, as sets of Python exceptions.
\* ElementTree.parse raises xml ParseError on malformed input and IOError on
\* an unreadable source; int() raises ValueError on an invalid literal.
DocumentError == {"IOError", "xml.ParseError"}
ParseError == {"ValueError"}

---------------------------------------------------------------------------
(* The namespace table, parse.py lines 32-43                               *)

PSKC_NS == "urn:ietf:params:xml:ns:keyprov:pskc"
DS_NS == "http://www.w3.org/2000/09/xmldsig#"
XENC_NS == "http://www.w3.org/2001/04/xmlenc#"
XENC11_NS == "http://www.w3.org/2009/xmlenc11#"
PKCS5_NS == "http://www.rsasecurity.com/rsalabs/pkcs/schemas/pkcs-5v2-0#"

Registry ==
  [pskc |-> PSKC_NS, ds |-> DS_NS, xenc |-> XENC_NS,
   xenc11 |-> XENC11_NS, pkcs5 |-> PKCS5_NS]

---------------------------------------------------------------------------
(* str.strip()                                                             *)

IsSpace(c) == c = " "

RECURSIVE LStrip(_)
LStrip(s) ==
  IF s # <<>> /\ IsSpace(Head(s)) THEN LStrip(Tail(s)) ELSE s

RECURSIVE RStrip(_)
RStrip(s) ==
  IF s # <<>> /\ IsSpace(s[Len(s)]) THEN RStrip(SubSeq(s, 1, Len(s) - 1))
  ELSE s

Strip(s) == RStrip(LStrip(s))

---------------------------------------------------------------------------
(* int(): optional sign, then one or more decimal digits                   *)

Digits == {"0", "1", "2", "3", "4", "5", "6", "7", "8", "9"}

DigitVal(c) ==
  CASE c = "0" -> 0 [] c = "1" -> 1 [] c = "2" -> 2 [] c = "3" -> 3
    [] c = "4" -> 4 [] c = "5" -> 5 [] c = "6" -> 6 [] c = "7" -> 7
    [] c = "8" -> 8 [] c = "9" -> 9

AllDigits(s) == s # <<>> /\ \A i \in 1..Len(s) : s[i] \in Digits

RECURSIVE DecVal(_)
DecVal(s) ==
  IF s = <<>> THEN 0
  ELSE 10 * DecVal(SubSeq(s, 1, Len(s) - 1)) + DigitVal(s[Len(s)])

PyInt(s) ==
  LET t == Strip(s)
      signed == t # <<>> /\ Head(t) \in {"-", "+"}
      body == IF signed THEN Tail(t) ELSE t
  IN  IF ~AllDigits(body) THEN Raise("ValueError")
      ELSE IF signed /\ Head(t) = "-" THEN Num(0 - DecVal(body))
      ELSE Num(DecVal(body))

---------------------------------------------------------------------------
(* Elements and ElementTree.parse.  A document source is a sequence of    *)
(* start-tag and end-tag tokens; the parser keeps a stack of open          *)
(* elements and fails on an end tag that does not match, on input that     *)
(* ends with elements still open, on an empty input and on a second root.  *)
(* An element's id is the position of its start tag: it stands for the     *)
(* identity of the Element object.                                         *)

Element(id, ns, local, attrib, text, children) ==
  [k |-> "element", id |-> id, ns |-> ns, local |-> local,
   attrib |-> attrib, text |-> text, children |-> children]

NoAttrib == [n \in {} |-> <<>>]

StartTok(ns, local, attrib) ==
  [t |-> "start", ns |-> ns, local |-> local, attrib |-> attrib]
EndTok(ns, local) ==
  [t |-> "end", ns |-> ns, local |-> local, attrib |-> NoAttrib]

AppendChild(parent, child) ==
  [parent EXCEPT !.children = Append(@, child)]

RECURSIVE Feed(_, _, _, _)
Feed(toks, i, stack, root) ==
  IF i > Len(toks)
  THEN IF stack # <<>> \/ root = None THEN Raise("xml.ParseError") ELSE root
  ELSE
    LET tok == toks[i] IN
    IF tok.t = "start"
    THEN IF stack = <<>> /\ root # None THEN Raise("xml.ParseError")
         ELSE Feed(toks, i + 1,
                   Append(stack,
                          Element(i, tok.ns, tok.local, tok.attrib, None, <<>>)),
                   root)
    ELSE IF stack = <<>> THEN Raise("xml.ParseError")
    ELSE
      LET top == stack[Len(stack)]
          rest == SubSeq(stack, 1, Len(stack) - 1)
      IN  IF top.ns # tok.ns \/ top.local # tok.local
          THEN Raise("xml.ParseError")
          ELSE IF rest = <<>> THEN Feed(toks, i + 1, <<>>, top)
          ELSE Feed(toks, i + 1,
                    [rest EXCEPT ![Len(rest)] = AppendChild(@, top)], root)

\* faulty variant: a recovering parser that returns the outermost element of a
\* document it could not parse to the end
ETParse_Lenient(src) ==
  IF ~src.readable THEN Raise("IOError")
  ELSE LET r == Feed(src.tokens, 1, <<>>, None)
       IN  IF IsRaise(r) /\ src.tokens # <<>>
           THEN Element(1, src.tokens[1].ns, src.tokens[1].local,
                        src.tokens[1].attrib, None, <<>>)
           ELSE r

\* ElementTree.parse(filename).getroot(), or the exception it raises
ETParse(src) ==
  IF ~src.readable THEN Raise("IOError") ELSE Feed(src.tokens, 1, <<>>, None)

\* faulty variant: the attribute value is trimmed
AttribGet_Strip(elem, name) ==
  IF name \in DOMAIN elem.attrib THEN Str(Strip(elem.attrib[name])) ELSE None

\* container.attrib.get(name)
AttribGet(elem, name) ==
  IF name \in DOMAIN elem.attrib THEN Str(elem.attrib[name]) ELSE None

---------------------------------------------------------------------------
(* Element.find / Element.findall with a prefix map.  A path is a sequence *)
(* of steps [prefix, local]; prefix "" is an unqualified name.  The whole  *)
(* path is compiled (every prefix resolved) before any element is looked   *)
(* at, and an unknown prefix raises SyntaxError.                           *)

Step(prefix, local) == [prefix |-> prefix, local |-> local]

PrefixKnown(step, nsmap) == step.prefix = "" \/ step.prefix \in DOMAIN nsmap

Resolve(step, nsmap) ==
  [ns |-> IF step.prefix = "" THEN "" ELSE nsmap[step.prefix],
   local |-> step.local]

RECURSIVE Flatten(_)
Flatten(ss) == IF ss = <<>> THEN <<>> ELSE Head(ss) \o Flatten(Tail(ss))

\* faulty variant: elements are matched by local name, whatever their namespace
Matching_LocalOnly(elems, tag) ==
  LET Hit(e) == e.local = tag.local
  IN  SelectSeq(Flatten([i \in 1..Len(elems) |-> elems[i].children]), Hit)

Matching(elems, tag) ==
  LET Hit(e) == e.ns = tag.ns /\ e.local = tag.local
  IN  SelectSeq(Flatten([i \in 1..Len(elems) |-> elems[i].children]), Hit)

RECURSIVE Walk(_, _, _)
Walk(elems, path, nsmap) ==
  IF path = <<>> THEN elems
  ELSE Walk(Matching(elems, Resolve(Head(path), nsmap)), Tail(path), nsmap)

\* faulty variant: prefixes are resolved step by step while the tree is walked, so
\* a later step is never resolved when an earlier one selects nothing
FindAll_Lazy(elem, path, nsmap) ==
  IF ~PrefixKnown(path[1], nsmap) THEN Raise("SyntaxError")
  ELSE IF Matching(<<elem>>, Resolve(path[1], nsmap)) = <<>>
       THEN [k |-> "list", items |-> <<>>]
  ELSE IF \E i \in 1..Len(path) : ~PrefixKnown(path[i], nsmap)
       THEN Raise("SyntaxError")
  ELSE [k |-> "list", items |-> Walk(<<elem>>, path, nsmap)]

FindAll(elem, path, nsmap) ==
  IF \E i \in 1..Len(path) : ~PrefixKnown(path[i], nsmap)
  THEN Raise("SyntaxError")
  ELSE [k |-> "list", items |-> Walk(<<elem>>, path, nsmap)]

\* faulty variant: the last match wins
Find_Last(elem, path, nsmap) ==
  LET r == FindAll(elem, path, nsmap)
  IN  IF IsRaise(r) THEN r
      ELSE IF r.items = <<>> THEN None ELSE r.items[Len(r.items)]

Find(elem, path, nsmap) ==
  LET r == FindAll(elem, path, nsmap)
  IN  IF IsRaise(r) THEN r
      ELSE IF r.items = <<>> THEN None ELSE r.items[1]

---------------------------------------------------------------------------
(* Inputs                                                                  *)

\* characters of element text: a space, two digits, a letter, a sign
TextChars == {" ", "4", "2", "a", "-"}

RECURSIVE SeqsUpTo(_, _)
SeqsUpTo(S, n) ==
  IF n = 0 THEN {<<>>}
  ELSE LET shorter == SeqsUpTo(S, n - 1)
       IN  shorter \cup {Append(s, c) : s \in shorter, c \in S}

\* element.text: None for an element without text, else a string
Texts == {None} \cup {Str(s) : s \in SeqsUpTo(TextChars, MaxTextLen)}

\* attribute values of the root: "", "1.0" and " a " (with blanks)
AttrVals == {<<>>, <<"1", ".", "0">>, <<" ", "a", " ">>}
Attribs == UNION {[S -> AttrVals] : S \in SUBSET {"Version", "Id"}}

\* children of a document root: the three PSKC names, in the PSKC
\* namespace or in another one
ChildTags ==
  [ns : {PSKC_NS, DS_NS}, local : {"EncryptionKey", "MACMethod", "KeyPackage"}]

Serialize(attrib, kids) ==
  <<StartTok(PSKC_NS, "KeyContainer", attrib)>>
    \o Flatten([i \in 1..Len(kids) |->
                 <<StartTok(kids[i].ns, kids[i].local, NoAttrib),
                   EndTok(kids[i].ns, kids[i].local)>>])
    \o <<EndTok(PSKC_NS, "KeyContainer")>>

WellFormed ==
  {Serialize(a, kids) : a \in Attribs, kids \in SeqsUpTo(ChildTags, MaxChildren)}

\* an unclosed root tag, a mismatched end tag, an empty input
Malformed ==
  {SubSeq(d, 1, Len(d) - 1) : d \in WellFormed}
    \cup {[d EXCEPT ![Len(d)] = EndTok(PSKC_NS, "Container")] : d \in WellFormed}
    \cup {<<>>}

Sources ==
  [readable : {TRUE}, tokens : WellFormed \cup Malformed]
    \cup {[readable |-> FALSE, tokens |-> <<>>]}

\* trees handed to the accessors: a node whose children are named Key or
\* Other, in the PSKC namespace, in another registered one, or unqualified
KidTags ==
  {[ns |-> PSKC_NS, local |-> "Key"], [ns |-> DS_NS, local |-> "Key"],
   [ns |-> "", local |-> "Key"], [ns |-> PSKC_NS, local |-> "Other"]}

Tree(kids, text) ==
  Element(0, PSKC_NS, "Node", NoAttrib, None,
          [i \in 1..Len(kids) |->
             Element(i, kids[i].ns, kids[i].local, NoAttrib, text, <<>>)])

Trees == {Tree(kids, t) : kids \in SeqsUpTo(KidTags, MaxKids), t \in Texts}

\* paths: every registered prefix, an unregistered one, one and two steps
Paths ==
  {<<Step(p, "Key")>> : p \in DOMAIN Registry \cup {"foo"}}
    \cup {<<Step("pskc", "Other")>>,
          <<Step("", "Key")>>,
          <<Step("pskc", "Key"), Step("pskc", "Key")>>,
          <<Step("pskc", "Other"), Step("foo", "Key")>>,
          <<Step("foo", "Other"), Step("pskc", "Key")>>}

---------------------------------------------------------------------------
(* State                                                                   *)

VARIABLES
  namespaces,  \* the module-level prefix map
  call,        \* the call this run makes: function and arguments
  pc,          \* position in the called function
  tree,        \* PSKC.__init__: the local variable container (the root)
  self,        \* PSKC.__init__: the object under construction
  packages,    \* PSKC.__init__: the KeyPackage elements still to visit
  ctorlog,     \* calls made to the Encryption, MAC and Key constructors
  result       \* what the caller gets: a value, an object or Raise(e)

vars == <<namespaces, call, pc, tree, self, packages, ctorlog, result>>

Unset == [k |-> "unset"]
Pending == [k |-> "pending"]
List(items) == [k |-> "list", items |-> items]

NewSelf ==
  [k |-> "PSKC", version |-> Unset, id |-> Unset, encryption |-> Unset,
   mac |-> Unset, keys |-> Unset]

Accessors == {"g_e_v", "g_e_i", "g_e_d"}

InitPSKC ==
  /\ call \in [fn : {"PSKC"}, filename : Sources]
  /\ pc = "L84"

InitAccessor ==
  /\ call \in [fn : Accessors, tree : Trees, match : Paths]
  /\ pc = "call"

Init ==
  /\ namespaces = Registry
  /\ tree = None
  /\ self = NewSelf
  /\ packages = <<>>
  /\ ctorlog = <<>>
  /\ result = Pending
  /\ (InitPSKC \/ InitAccessor)

---------------------------------------------------------------------------
(* The typed element accessors, parse.py lines 46-65                       *)

\* element.text.strip(): None has no strip()
TextStrip(element) ==
  IF element.text = None THEN Raise("AttributeError")
  ELSE Str(Strip(element.text.s))

g_e_v(t, match) ==
  LET element == Find(t, match, namespaces)
  IN  IF IsRaise(element) THEN element
      ELSE IF element # None THEN TextStrip(element)
      ELSE None

\* faulty variant: a missing element reads as 0
g_e_i_Default(t, match) ==
  LET element == Find(t, match, namespaces)
  IN  IF IsRaise(element) THEN element
      ELSE IF element # None
           THEN LET txt == TextStrip(element)
                IN  IF IsRaise(txt) THEN txt ELSE PyInt(txt.s)
      ELSE Num(0)

g_e_i(t, match) ==
  LET element == Find(t, match, namespaces)
  IN  IF IsRaise(element) THEN element
      ELSE IF element # None
           THEN LET txt == TextStrip(element)
                IN  IF IsRaise(txt) THEN txt ELSE PyInt(txt.s)
      ELSE None

\* dateutil.parser.parse is a library outside this repository: it returns
\* a datetime or raises ValueError, and the model leaves open which
DateutilParse(s) == {[k |-> "datetime", of |-> s], Raise("ValueError")}

\* the set of outcomes of g_e_d
g_e_d(t, match) ==
  LET element == Find(t, match, namespaces)
  IN  IF IsRaise(element) THEN {element}
      ELSE IF element # None
           THEN LET txt == TextStrip(element)
                IN  IF IsRaise(txt) THEN {txt} ELSE DateutilParse(txt.s)
      ELSE {None}

Call_g_e_v ==
  /\ pc = "call" /\ call.fn = "g_e_v"
  /\ result' = g_e_v(call.tree, call.match)
  /\ pc' = "return"
  /\ UNCHANGED <<namespaces, call, tree, self, packages, ctorlog>>

Call_g_e_i ==
  /\ pc = "call" /\ call.fn = "g_e_i"
  /\ result' = g_e_i(call.tree, call.match)
  /\ pc' = "return"
  /\ UNCHANGED <<namespaces, call, tree, self, packages, ctorlog>>

Call_g_e_d ==
  /\ pc = "call" /\ call.fn = "g_e_d"
  /\ result' \in g_e_d(call.tree, call.match)
  /\ pc' = "return"
  /\ UNCHANGED <<namespaces, call, tree, self, packages, ctorlog>>

---------------------------------------------------------------------------
(* The collaborators pskc.encryption.Encryption, pskc.mac.MAC and          *)
(* pskc.key.Key: each constructor wraps the element it is given; given no  *)
(* element it yields an unset descriptor, given an element it may raise    *)
(* the error of a typed accessor.                                          *)

Encryption(element) == [k |-> "Encryption", element |-> element]
MAC(element) == [k |-> "MAC", element |-> element]
Key(element) == [k |-> "Key", element |-> element]

CtorRaises(element) == IF element = None THEN {FALSE} ELSE BOOLEAN

CtorCall(name, container, element) ==
  [ctor |-> name, container |-> container, element |-> element]

---------------------------------------------------------------------------
(* PSKC.__init__, parse.py lines 80-100                                    *)

\* an exception leaves __init__: the caller gets no object
Abort(exc) ==
  /\ pc' = "Failed"
  /\ result' = exc

\* lines 84-85: tree = ElementTree.parse(filename); tree.getroot()
LoadTree ==
  /\ pc = "L84"
  /\ LET r == ETParse(call.filename)
     IN  IF IsRaise(r)
         THEN Abort(r) /\ UNCHANGED tree
         ELSE tree' = r /\ pc' = "L87" /\ UNCHANGED result
  /\ UNCHANGED <<namespaces, call, self, packages, ctorlog>>

\* faulty variant: self.keys = [] is done with the attributes, before the descriptors
ReadAttributes_KeysEarly ==
  /\ pc = "L87"
  /\ self' = [self EXCEPT !.version = AttribGet(tree, "Version"),
                          !.id = AttribGet(tree, "Id"),
                          !.keys = [k |-> "list", items |-> <<>>]]
  /\ pc' = "L91"
  /\ UNCHANGED <<namespaces, call, tree, packages, ctorlog, result>>

\* lines 87-89: self.version, self.id
ReadAttributes ==
  /\ pc = "L87"
  /\ self' = [self EXCEPT !.version = AttribGet(tree, "Version"),
                          !.id = AttribGet(tree, "Id")]
  /\ pc' = "L91"
  /\ UNCHANGED <<namespaces, call, tree, packages, ctorlog, result>>

\* lines 91-92: self.encryption = Encryption(container.find(...))
BuildEncryption ==
  /\ pc = "L91"
  /\ LET e == Find(tree, <<Step("pskc", "EncryptionKey")>>, namespaces)
     IN  IF IsRaise(e)
         THEN Abort(e) /\ UNCHANGED <<self, ctorlog>>
         ELSE /\ ctorlog' = Append(ctorlog, CtorCall("Encryption", None, e))
              /\ \E raises \in CtorRaises(e) :
                   IF raises
                   THEN Abort(Raise("ValueError")) /\ UNCHANGED self
                   ELSE /\ self' = [self EXCEPT !.encryption = Encryption(e)]
                        /\ pc' = "L94"
                        /\ UNCHANGED result
  /\ UNCHANGED <<namespaces, call, tree, packages>>

\* lines 94-95: self.mac = MAC(self, container.find(...))
BuildMAC ==
  /\ pc = "L94"
  /\ LET e == Find(tree, <<Step("pskc", "MACMethod")>>, namespaces)
     IN  IF IsRaise(e)
         THEN Abort(e) /\ UNCHANGED <<self, ctorlog>>
         ELSE /\ ctorlog' = Append(ctorlog, CtorCall("MAC", self, e))
              /\ \E raises \in CtorRaises(e) :
                   IF raises
                   THEN Abort(Raise("ValueError")) /\ UNCHANGED self
                   ELSE /\ self' = [self EXCEPT !.mac = MAC(e)]
                        /\ pc' = "L97"
                        /\ UNCHANGED result
  /\ UNCHANGED <<namespaces, call, tree, packages>>

\* lines 97-99: self.keys = []; the list container.findall(...) is built
StartKeys ==
  /\ pc = "L97"
  /\ LET found == FindAll(tree, <<Step("pskc", "KeyPackage")>>, namespaces)
     IN  IF IsRaise(found)
         THEN Abort(found) /\ UNCHANGED packages
         ELSE packages' = found.items /\ pc' = "L100" /\ UNCHANGED result
  /\ self' = [self EXCEPT !.keys = List(<<>>)]
  /\ UNCHANGED <<namespaces, call, tree, ctorlog>>

\* faulty variant: each key is put in front of the earlier ones
AppendKey_Prepend ==
  /\ pc = "L100"
  /\ packages # <<>>
  /\ LET package == Head(packages)
     IN  /\ ctorlog' = Append(ctorlog, CtorCall("Key", self, package))
         /\ \E raises \in CtorRaises(package) :
              IF raises
              THEN Abort(Raise("ValueError")) /\ UNCHANGED <<self, packages>>
              ELSE /\ self' = [self EXCEPT
                                 !.keys = List(<<Key(package)>> \o @.items)]
                   /\ packages' = Tail(packages)
                   /\ UNCHANGED <<pc, result>>
  /\ UNCHANGED <<namespaces, call, tree>>

\* line 100, one iteration: self.keys.append(Key(self, package))
AppendKey ==
  /\ pc = "L100"
  /\ packages # <<>>
  /\ LET package == Head(packages)
     IN  /\ ctorlog' = Append(ctorlog, CtorCall("Key", self, package))
         /\ \E raises \in CtorRaises(package) :
              IF raises
              THEN Abort(Raise("ValueError")) /\ UNCHANGED <<self, packages>>
              ELSE /\ self' = [self EXCEPT
                                 !.keys = List(Append(@.items, Key(package)))]
                   /\ packages' = Tail(packages)
                   /\ UNCHANGED <<pc, result>>
  /\ UNCHANGED <<namespaces, call, tree>>

\* the loop is exhausted: __init__ returns and the caller gets the object
Return ==
  /\ pc = "L100"
  /\ packages = <<>>
  /\ pc' = "Parsed"
  /\ result' = self
  /\ UNCHANGED <<namespaces, call, tree, self, packages, ctorlog>>

Next ==
  \/ LoadTree
  \/ ReadAttributes
  \/ BuildEncryption
  \/ BuildMAC
  \/ StartKeys
  \/ AppendKey
  \/ Return
  \/ Call_g_e_v
  \/ Call_g_e_i
  \/ Call_g_e_d

Spec == Init /\ [][Next]_vars

---------------------------------------------------------------------------
(* Vocabulary of the properties, taken from the call's arguments rather    *)
(* than from the variables the constructor computes.                       *)

IsParse == call.fn = "PSKC"
IsAccessor == call.fn \in Accessors
Tokens == call.filename.tokens

\* positions, in document order, of the start tags of pskc:<local>
PositionsOf(local) ==
  LET IsStart(i) ==
        /\ Tokens[i].t = "start"
        /\ Tokens[i].ns = PSKC_NS
        /\ Tokens[i].local = local
  IN  SelectSeq([i \in 1..Len(Tokens) |-> i], IsStart)

IsWellFormedSource == call.filename.readable /\ Tokens \in WellFormed
IsBrokenSource == ~call.filename.readable \/ Tokens \in Malformed

\* some element below elem is reached by the path, with the table's URIs
RECURSIVE HasMatch(_, _)
HasMatch(elem, path) ==
  \/ path = <<>>
  \/ \E i \in 1..Len(elem.children) :
       /\ elem.children[i].local = Head(path).local
       /\ elem.children[i].ns =
            (IF Head(path).prefix = "" THEN "" ELSE Registry[Head(path).prefix])
       /\ HasMatch(elem.children[i], Tail(path))

AllRegistered(path) ==
  \A i \in 1..Len(path) : path[i].prefix \in DOMAIN Registry

SomeUnregistered(path) ==
  \E i \in 1..Len(path) :
    path[i].prefix # "" /\ path[i].prefix \notin DOMAIN Registry

\* the text of the first element the path reaches (one-step paths)
FirstHit(elem, path) ==
  LET i == CHOOSE i \in 1..Len(elem.children) :
             /\ HasMatch(Element(0, "", "", NoAttrib, None,
                                 <<elem.children[i]>>), path)
             /\ \A j \in 1..(i - 1) :
                  ~HasMatch(Element(0, "", "", NoAttrib, None,
                                    <<elem.children[j]>>), path)
  IN  elem.children[i]

\* a decimal integer literal: an optional sign and digits
IsIntLiteral(s) ==
  \/ AllDigits(s)
  \/ s # <<>> /\ Head(s) \in {"-", "+"} /\ AllDigits(Tail(s))

---------------------------------------------------------------------------
(* Properties                                                              *)

\* C1: a successful parse of a document with N KeyPackage elements yields
\* N keys, and keys[i] was built from the i-th KeyPackage in document
\* order.
C1_KeysInDocumentOrder ==
  (IsParse /\ pc = "Parsed") =>
    LET kp == PositionsOf("KeyPackage")
        keys == result.keys.items
    IN  /\ Len(keys) = Len(kp)
        /\ \A i \in 1..Len(kp) :
             keys[i].k = "Key" /\ keys[i].element.id = kp[i]

C1_Witness ==
  /\ IsParse /\ pc = "Parsed"
  /\ Len(PositionsOf("KeyPackage")) = 2
  /\ PositionsOf("KeyPackage")[2] - PositionsOf("KeyPackage")[1] > 2
  /\ Len(result.keys.items) = 2

\* C2: with more than one EncryptionKey in the root, the Encryption
\* constructor is only ever given the first one, and likewise MACMethod
\* and the MAC constructor.
C2_FirstMatchOnly ==
  IsParse =>
    /\ \A i \in 1..Len(ctorlog) :
         /\ (ctorlog[i].ctor = "Encryption"
               /\ Len(PositionsOf("EncryptionKey")) > 1)
              => /\ ctorlog[i].element # None
                 /\ ctorlog[i].element.id = PositionsOf("EncryptionKey")[1]
         /\ (ctorlog[i].ctor = "MAC" /\ Len(PositionsOf("MACMethod")) > 1)
              => /\ ctorlog[i].element # None
                 /\ ctorlog[i].element.id = PositionsOf("MACMethod")[1]
    /\ (self.encryption # Unset /\ Len(PositionsOf("EncryptionKey")) > 1)
         => self.encryption.element.id = PositionsOf("EncryptionKey")[1]
    /\ (self.mac # Unset /\ Len(PositionsOf("MACMethod")) > 1)
         => self.mac.element.id = PositionsOf("MACMethod")[1]

C2_Witness ==
  /\ IsParse /\ pc = "Parsed"
  /\ Len(PositionsOf("EncryptionKey")) = 2
  /\ result.encryption.element.id = PositionsOf("EncryptionKey")[1]

\* C3: a well-formed document without EncryptionKey, MACMethod and
\* KeyPackage never fails to parse, and the container returned has an
\* encryption and a mac descriptor built from no element and an empty keys
\* list.
C3_EmptyDocument ==
  (/\ IsParse /\ IsWellFormedSource
   /\ PositionsOf("EncryptionKey") = <<>>
   /\ PositionsOf("MACMethod") = <<>>
   /\ PositionsOf("KeyPackage") = <<>>) =>
    /\ pc # "Failed"
    /\ ~IsRaise(result)
    /\ pc = "Parsed" =>
         /\ result.encryption = Encryption(None)
         /\ result.mac = MAC(None)
         /\ result.keys = List(<<>>)

C3_Witness ==
  /\ IsParse /\ IsWellFormedSource /\ pc = "Parsed"
  /\ Len(Tokens) > 2
  /\ PositionsOf("EncryptionKey") = <<>>
  /\ PositionsOf("MACMethod") = <<>>
  /\ PositionsOf("KeyPackage") = <<>>
  /\ result.keys = List(<<>>)

\* C4: on a malformed or unreadable source the parse does not get past
\* reading the document: it ends in Failed, which is terminal, with a
\* DocumentError, and the caller never gets a container.
C4_MalformedFails ==
  (IsParse /\ IsBrokenSource) =>
    /\ pc \in {"L84", "Failed"}
    /\ result.k # "PSKC"
    /\ pc = "Failed" =>
         /\ IsRaise(result) /\ result.exc \in DocumentError
         /\ ~ENABLED Next

C4_Witness ==
  /\ IsParse /\ pc = "Failed"
  /\ call.filename.readable
  /\ Len(Tokens) > 2
  /\ Tokens[Len(Tokens)] = EndTok(PSKC_NS, "KeyPackage")
  /\ result = Raise("xml.ParseError")

\* C5: when g_e_i finds an element, it returns the integer its trimmed text
\* denotes, or fails with a ParseError when the text is not an integer.
C5_IntOrParseError ==
  (/\ pc = "return" /\ call.fn = "g_e_i"
   /\ AllRegistered(call.match) /\ HasMatch(call.tree, call.match)) =>
    LET text == FirstHit(call.tree, call.match).text
    IN  IF text # None /\ IsIntLiteral(Strip(text.s))
        THEN result = PyInt(text.s) /\ result.k = "int"
        ELSE IsRaise(result) /\ result.exc \in ParseError

\* C6: when g_e_v finds an element, it returns the element's text with the
\* surrounding blanks removed, and raises nothing.
C6_StringTrimmed ==
  (/\ pc = "return" /\ call.fn = "g_e_v"
   /\ AllRegistered(call.match) /\ HasMatch(call.tree, call.match)) =>
    LET text == FirstHit(call.tree, call.match).text
    IN  /\ ~IsRaise(result)
        /\ result = Str(IF text = None THEN <<>> ELSE Strip(text.s))

\* C7: each of the three accessors returns None, and raises nothing, when
\* no element matches a path whose prefixes are all registered.
C7_AbsentIsNone ==
  (/\ pc = "return" /\ IsAccessor
   /\ AllRegistered(call.match) /\ ~HasMatch(call.tree, call.match)) =>
    result = None

C7_Witness ==
  /\ pc = "return" /\ call.fn = "g_e_i"
  /\ call.match = <<Step("pskc", "Key")>>
  /\ Len(call.tree.children) = 2
  /\ call.tree.children[1].ns = ""
  /\ call.tree.children[1].text = Str(<<"4", "2">>)
  /\ result = None

\* C8: version and id are the root's Version and Id attribute values,
\* unchanged, and None exactly when the attribute is missing.
C8_RootAttributesVerbatim ==
  (IsParse /\ self.version # Unset) =>
    LET attrib == Tokens[1].attrib
        Expected(name) ==
          IF name \in DOMAIN attrib THEN Str(attrib[name]) ELSE None
    IN  /\ self.version = Expected("Version")
        /\ self.id = Expected("Id")
        /\ (self.version = None) <=> ("Version" \notin DOMAIN attrib)
        /\ (self.id = None) <=> ("Id" \notin DOMAIN attrib)
        /\ pc = "Parsed" =>
             /\ result.version = Expected("Version")
             /\ result.id = Expected("Id")

C8_Witness ==
  /\ IsParse /\ pc = "Parsed"
  /\ DOMAIN Tokens[1].attrib = {"Version"}
  /\ result.version = Str(<<" ", "a", " ">>)
  /\ result.id = None

\* C9: the prefix table is never changed, and an accessor call whose path
\* uses a prefix that is not in it raises instead of returning a value.
C9_UnregisteredPrefixFails ==
  /\ namespaces = Registry
  /\ DOMAIN namespaces = {"pskc", "ds", "xenc", "xenc11", "pkcs5"}
  /\ (pc = "return" /\ IsAccessor /\ SomeUnregistered(call.match))
       => IsRaise(result)

C9_Witness ==
  /\ pc = "return" /\ call.fn = "g_e_v"
  /\ call.match = <<Step("pskc", "Other"), Step("foo", "Key")>>
  /\ \A i \in 1..Len(call.tree.children) :
       call.tree.children[i].local # "Other"
  /\ Len(call.tree.children) = 2
  /\ result = Raise("SyntaxError")

\* C10: the constructors are called in the order Encryption, MAC, Key...;
\* the container the MAC constructor receives has version, id and
\* encryption set and neither mac nor keys; the container the constructor
\* of the i-th KeyPackage receives has encryption and mac set and holds the
\* i-1 earlier keys; a constructor that raises aborts the parse without a
\* container.
KeyCallsBefore(i) ==
  SelectSeq(SubSeq(ctorlog, 1, i - 1), LAMBDA c : c.ctor = "Key")

Constructed ==
  (IF self.encryption # Unset THEN 1 ELSE 0)
    + (IF self.mac # Unset THEN 1 ELSE 0)
    + (IF self.keys # Unset THEN Len(self.keys.items) ELSE 0)

C10_ConstructionOrder ==
  IsParse =>
    /\ self.encryption # Unset => (self.version # Unset /\ self.id # Unset)
    /\ self.mac # Unset => self.encryption # Unset
    /\ self.keys # Unset => self.mac # Unset
    /\ \A i \in 1..Len(ctorlog) :
         LET c == ctorlog[i] IN
         /\ c.ctor = "Encryption" <=> i = 1
         /\ c.ctor = "MAC" <=> i = 2
         /\ c.ctor = "MAC" =>
              /\ c.container.version # Unset /\ c.container.id # Unset
              /\ c.container.encryption # Unset
              /\ c.container.mac = Unset
              /\ c.container.keys = Unset
         /\ c.ctor = "Key" =>
              /\ c.container.encryption # Unset
              /\ c.container.mac # Unset
              /\ c.container.keys # Unset
              /\ Len(c.container.keys.items) = i - 3
              /\ \A j \in 1..(i - 3) :
                   c.container.keys.items[j].element
                     = KeyCallsBefore(i)[j].element
              /\ c.element.id = PositionsOf("KeyPackage")[i - 2]
    /\ Len(ctorlog) > Constructed =>
         (pc = "Failed" /\ IsRaise(result))
    /\ pc = "Failed" => result.k # "PSKC"

C10_Witness ==
  /\ IsParse /\ pc = "Failed"
  /\ Len(ctorlog) = 4
  /\ ctorlog[2].element # None
  /\ Len(ctorlog[4].container.keys.items) = 1
  /\ Len(self.keys.items) = 1

=============================================================================
